---- MODULE Spec2Model ----
(***************************************************************************)
(* Model of network_shuffle.py: the command-line flow (__main__), the      *)
(* shuffler shuffle_network and the networkx routine double_edge_swap it   *)
(* calls on a copy of the input graph.                                     *)
(*                                                                         *)
(* Graphs are networkx.Graph objects: they live in a heap of objects and   *)
(* are reached through references, so that copying and aliasing differ.    *)
(* A graph is a record [nodes, edges, file]: edges is a set of sets {a,b}; *)
(* a self-loop is the singleton {a}.  networkx.Graph keeps an adjacency    *)
(* dictionary, so an edge is stored once and a self-loop is allowed.       *)
(*                                                                         *)
(* Random draws (the two source nodes and the two neighbours) are          *)
(* nondeterministic choices over the values that have positive             *)
(* probability; random() is taken to lie in (0,1).                         *)
(*                                                                         *)
(* The edge-list codec (write_networkx_to_file, load_edgelist_to_networkx) *)
(* has a specification of its own, SpecCodec, over files of text.          *)
(***************************************************************************)
EXTENDS Integers, FiniteSets, Sequences, TLC

VARIABLES
    mode,       \* "cli": run of __main__; "api": a direct call of shuffle_network
    heap,       \* object id -> graph
    G,          \* reference to the input graph
    n_swaps,    \* the swap factor, a rational <<numerator, denominator>>
    G_shuff,    \* reference to the working graph, NoRef before G.copy()
    edge_len,   \* len(G.edges()) as read at line 18
    swapcount,  \* double_edge_swap: successful swaps
    n,          \* double_edge_swap: counted attempts
    last,       \* last loop iteration: "none", "continue" (not counted), "counted"
    pc,         \* position in the code
    caught,     \* exception of double_edge_swap caught at lines 22-26, or "none"
    exc,        \* exception that left shuffle_network, "none" otherwise
    ret,        \* reference returned by shuffle_network, NoRef before the return
    warned,     \* the numbers named by warnings.warn, NoWarning when none
    printed,    \* set of messages printed
    similarity, \* <<shared_edges, edge_len>> as printed, NoSimilarity when none
    written,    \* edge set written to the output file, NotWritten when none
    infile,     \* content of the edge-list file that load_edgelist_to_networkx reads
    node_cols,  \* load_edgelist_to_networkx: positions of the source and target columns
    loaded,     \* the graph load_edgelist_to_networkx returned, NoGraph before
    outfile     \* content of the file written from the loaded graph

vars == <<mode, heap, G, n_swaps, G_shuff, edge_len, swapcount, n, last, pc,
          caught, exc, ret, warned, printed, similarity, written, infile,
          node_cols, loaded, outfile>>

\* the state of the edge-list codec
codec == <<infile, node_cols, loaded, outfile>>

----------------------------------------------------------------------------
(* Bounds of the model *)

\* nodes are 1..k with k <= MaxNode
MaxNode == 4

\* input graphs have at most MaxEdges edges
MaxEdges == 4

\* the swap factors tried (--nSwaps is a float); dyadic, so that the
\* floating-point products edge_len*n_swaps and edge_len*n_swaps*10 are exact
Factors == { <<0 - 1, 1>>, <<0, 1>>, <<1, 4>>, <<1, 2>>, <<1, 1>> }

\* edge-list files have at most MaxRows data rows, and the graphs written
\* to a file at most MaxRows edges
MaxRows == 3

----------------------------------------------------------------------------
(* Values *)

NoRef == 0
NoFile == "nofile"
DataFile == "net.txt"
NoWarning == <<>>
NoSimilarity == <<>>
NotWritten == {{0}}
NoGraph == [nodes |-> {}, edges |-> {}, file |-> NoFile]
\* a path where no file has been written
Absent == [exists |-> FALSE, header |-> <<>>, rows |-> {}]

\* the candidate edges over a node set: pairs and self-loops
Pairs(nodes) == { {a, b} : a, b \in nodes }

IsSelfLoop(e) == Cardinality(e) = 1

SelfLoops(g) == { e \in g.edges : IsSelfLoop(e) }

\* G.degree(u): a self-loop counts twice
Degree(g, u) ==
    Cardinality({ e \in g.edges : u \in e }) + (IF {u} \in g.edges THEN 1 ELSE 0)

\* Graph.add_edge(a, b): adds the endpoints and the edge; no effect when present
AddEdge(g, a, b) ==
    [g EXCEPT !.nodes = @ \cup {a, b}, !.edges = @ \cup {{a, b}}]

\* Graph.remove_edge(a, b)
RemoveEdge(g, a, b) == [g EXCEPT !.edges = @ \ {{a, b}}]

\* G.edges() as a set of tuples: each edge is reported once, from the endpoint
\* that comes first in the graph's node order (nodes are inserted in
\* increasing order, and a copy keeps the order)
EdgeTuples(g) ==
    { <<a, b>> \in g.nodes \X g.nodes : a <= b /\ {a, b} \in g.edges }

----------------------------------------------------------------------------
(* Rational arithmetic on the swap factor *)

Num(q) == q[1]
Den(q) == q[2]

\* edge_len*n_swaps
NSwap(e, q) == <<e * Num(q), Den(q)>>

\* edge_len*n_swaps*10
MaxTries(e, q) == <<e * Num(q) * 10, Den(q)>>

\* i < q for an integer i and a rational q with Den(q) > 0
IntLess(i, q) == i * Den(q) < Num(q)

\* mutant of IntGeq: the test is "n > max_tries"
IntGreater(i, q) == i * Den(q) > Num(q)

\* i >= q for an integer i and a rational q with Den(q) > 0
IntGeq(i, q) == i * Den(q) >= Num(q)

\* p > q for rationals with positive denominators
RatGreater(p, q) == Num(p) * Den(q) > Num(q) * Den(p)

----------------------------------------------------------------------------
(* The initial state: the arguments of the run *)

\* Node identifiers are opaque, so inputs are taken up to renaming: the nodes
\* are 1..k, numbered by non-increasing degree, and self-loops sit on the
\* nodes of LoopNodes.
LoopNodes == {1, 2}

Candidates(nodes) ==
    { e \in Pairs(nodes) : IsSelfLoop(e) => e \subseteq LoopNodes }

DegreeSorted(g) ==
    \A a, b \in g.nodes : a < b => Degree(g, a) >= Degree(g, b)

\* the graphs on nodes 1..k, k <= MaxNode, with at most MaxEdges edges, with
\* or without the 'file' label
InputGraphs ==
    UNION { { [nodes |-> 1..k, edges |-> E, file |-> f] :
                E \in { S \in SUBSET Candidates(1..k) : Cardinality(S) <= MaxEdges },
                f \in {DataFile, NoFile} } : k \in 0..MaxNode }

\* load_edgelist_to_networkx: from_pandas_edgelist adds one edge per row, so
\* every node is an endpoint of some edge; the graph is labelled with its file
Loadable(g) ==
    /\ \A v \in g.nodes : \E e \in g.edges : v \in e
    /\ g.file = DataFile

\* "cli" runs start from a graph the loader returns; "api" runs are the calls
\* of shuffle_network that __main__ does not make
Init ==
    /\ mode \in {"cli", "api"}
    /\ G = 1
    /\ \E g \in InputGraphs :
          /\ DegreeSorted(g)
          /\ mode = "cli" => Loadable(g)
          /\ mode = "api" => ~(Loadable(g) /\ g.edges # {})
          /\ heap = [r \in {1} |-> g]
    /\ n_swaps \in Factors
    /\ G_shuff = NoRef
    /\ edge_len = 0
    /\ swapcount = 0
    /\ n = 0
    /\ last = "none"
    /\ pc = IF mode = "cli" THEN "main" ELSE "call"
    /\ caught = "none"
    /\ exc = "none"
    /\ ret = NoRef
    /\ warned = NoWarning
    /\ printed = {}
    /\ similarity = NoSimilarity
    /\ written = NotWritten
    /\ infile = Absent
    /\ node_cols = <<0, 1>>
    /\ loaded = NoGraph
    /\ outfile = Absent

----------------------------------------------------------------------------
(* __main__ *)

\* mutant of HasEdges: the test is "len(G.edges) >= 0"
HasEdgesOrNone(g) == Cardinality(g.edges) >= 0

\* line 136: len(G.edges) > 0
HasEdges(g) == Cardinality(g.edges) > 0

\* lines 136-143: shuffle and write when the graph has edges, report otherwise
MainBranch ==
    /\ pc = "main"
    /\ IF HasEdges(heap[G])
       THEN /\ pc' = "call"
            /\ UNCHANGED printed
       ELSE /\ pc' = "done"
            /\ printed' = printed \cup {"NO EDGES"}
    /\ UNCHANGED <<mode, heap, G, n_swaps, G_shuff, edge_len, swapcount, n, last,
                   caught, exc, ret, warned, similarity, written>>
    /\ UNCHANGED codec

\* line 141: write_shuffled_network(G_shuff, ...) with the graph returned
WriteShuffled ==
    /\ pc = "returned"
    /\ mode = "cli"
    /\ written' = heap[ret].edges
    /\ pc' = "done"
    /\ UNCHANGED <<mode, heap, G, n_swaps, G_shuff, edge_len, swapcount, n, last,
                   caught, exc, ret, warned, printed, similarity>>
    /\ UNCHANGED codec

----------------------------------------------------------------------------
(* shuffle_network, lines 18-19 *)

\* mutant of CopyRef: G_shuff = G, the working graph is the input object
CopyRefAlias(ref) == ref

\* G.copy(): the reference of the new graph object
CopyRef(ref) == 2

\* mutant of GraphCopy: the copy is rebuilt from the edge list, nx.Graph(G.edges())
GraphCopyFromEdges(g) == [g EXCEPT !.nodes = UNION g.edges]

\* G.copy(): the content of the new graph object
GraphCopy(g) == g

\* edge_len = len(G.edges()); G_shuff = G.copy()
CopyGraph ==
    /\ pc = "call"
    /\ edge_len' = Cardinality(heap[G].edges)
    /\ G_shuff' = CopyRef(G)
    /\ heap' = [r \in DOMAIN heap \cup {CopyRef(G)} |->
                  IF r = CopyRef(G) THEN GraphCopy(heap[G]) ELSE heap[r]]
    /\ pc' = "swap"
    /\ UNCHANGED <<mode, G, n_swaps, swapcount, n, last, caught, exc, ret, warned,
                   printed, similarity, written>>
    /\ UNCHANGED codec

----------------------------------------------------------------------------
(* networkx.double_edge_swap(G_shuff, nswap, max_tries), called at line 21 *)

\* a source u with one of its neighbours v: discrete_sequence draws a node
\* with probability proportional to its degree (so only nodes that have a
\* neighbour), seed.choice(list(G[u])) then draws one of its neighbours.
\* The degrees are read once, before the loop; the nodes that have a
\* neighbour are the same in every graph the loop reaches.
Ends(g) == { p \in g.nodes \X g.nodes : {p[1], p[2]} \in g.edges }

\* the draws of one iteration: <<u, v>> and <<x, y>> (v and y are not drawn
\* when u = x)
Draws(g) == Ends(g) \X Ends(g)

\* "if ui == xi: continue"
SameSource(u, x) == u = x

\* mutant of SameTarget: the test "if v == y: continue" is missing
SameTargetNever(v, y) == FALSE

\* "if v == y: continue"
SameTarget(v, y) == v = y

\* mutant of CanRewire: only the first of the two tests, x not in G[u]
CanRewireFirstOnly(g, u, v, x, y) == {u, x} \notin g.edges

\* "don't create parallel edges": (x not in G[u]) and (y not in G[v])
CanRewire(g, u, v, x, y) ==
    /\ {u, x} \notin g.edges
    /\ {v, y} \notin g.edges

\* mutant of Rewire: the other pairing, u-y and v-x
RewireCrossed(g, u, v, x, y) ==
    RemoveEdge(RemoveEdge(AddEdge(AddEdge(g, u, y), v, x), u, v), x, y)

\* the rewiring of u-v and x-y into u-x and v-y
Rewire(g, u, v, x, y) ==
    RemoveEdge(RemoveEdge(AddEdge(AddEdge(g, u, x), v, y), u, v), x, y)

\* what one iteration does to the graph for the draw u, v, x, y
Outcome(g, u, v, x, y) ==
    IF SameSource(u, x) \/ SameTarget(v, y)
    THEN [kind |-> "continue", graph |-> g]
    ELSE IF CanRewire(g, u, v, x, y)
         THEN [kind |-> "swap", graph |-> Rewire(g, u, v, x, y)]
         ELSE [kind |-> "reject", graph |-> g]

SwapOutcomes(g) == { Outcome(g, d[1][1], d[1][2], d[2][1], d[2][2]) : d \in Draws(g) }

\* mutant of SwapArgumentsOk: the test "len(G) < 4" is missing
SwapArgumentsOkAnyNodes(g, nswap, max_tries) ==
    /\ ~RatGreater(nswap, max_tries)
    /\ Cardinality(g.edges) >= 2

\* the argument checks made before the loop
SwapArgumentsOk(g, nswap, max_tries) ==
    /\ ~RatGreater(nswap, max_tries)
    /\ Cardinality(g.nodes) >= 4
    /\ Cardinality(g.edges) >= 2

\* entry: NetworkXError when nswap > max_tries, when the graph has fewer than
\* four nodes or fewer than two edges; otherwise n = 0, swapcount = 0
SwapEnter ==
    /\ pc = "swap"
    /\ IF SwapArgumentsOk(heap[G_shuff], NSwap(edge_len, n_swaps),
                          MaxTries(edge_len, n_swaps))
       THEN /\ pc' = "loop"
            /\ UNCHANGED caught
       ELSE /\ pc' = "except_nx"
            /\ caught' = "NetworkXError"
    /\ n' = 0
    /\ swapcount' = 0
    /\ UNCHANGED <<mode, heap, G, n_swaps, G_shuff, edge_len, last, exc, ret, warned,
                   printed, similarity, written>>
    /\ UNCHANGED codec

\* one iteration of "while swapcount < nswap": "continue" when u = x or v = y;
\* otherwise rewire when no parallel edge would arise, then raise
\* NetworkXAlgorithmError when n >= max_tries, else n += 1
SwapIteration ==
    /\ pc = "loop"
    /\ IntLess(swapcount, NSwap(edge_len, n_swaps))
    /\ \E o \in SwapOutcomes(heap[G_shuff]) :
         IF o.kind = "continue"
         THEN /\ last' = "continue"
              /\ UNCHANGED <<heap, swapcount, n, pc, caught>>
         ELSE /\ heap' = [heap EXCEPT ![G_shuff] = o.graph]
              /\ swapcount' = IF o.kind = "swap" THEN swapcount + 1 ELSE swapcount
              /\ last' = "counted"
              /\ IF IntGeq(n, MaxTries(edge_len, n_swaps))
                 THEN /\ pc' = "except_algorithm"
                      /\ caught' = "NetworkXAlgorithmError"
                      /\ UNCHANGED n
                 ELSE /\ n' = n + 1
                      /\ UNCHANGED <<pc, caught>>
    /\ UNCHANGED <<mode, G, n_swaps, G_shuff, edge_len, exc, ret, warned, printed,
                   similarity, written>>
    /\ UNCHANGED codec

\* the loop condition fails: double_edge_swap returns
SwapReturn ==
    /\ pc = "loop"
    /\ ~IntLess(swapcount, NSwap(edge_len, n_swaps))
    /\ pc' = "similarity"
    /\ UNCHANGED <<mode, heap, G, n_swaps, G_shuff, edge_len, swapcount, n, last,
                   caught, exc, ret, warned, printed, similarity, written>>
    /\ UNCHANGED codec

----------------------------------------------------------------------------
(* shuffle_network, lines 22-33 *)

\* lines 22-24: the warning names edge_len*10 and edge_len*n_swaps and reads
\* G.graph['file'] (KeyError when the graph carries no label)
ExceptAlgorithmError ==
    /\ pc = "except_algorithm"
    /\ IF heap[G].file = NoFile
       THEN /\ exc' = "KeyError"
            /\ pc' = "raised"
            /\ UNCHANGED warned
       ELSE /\ warned' = [attempts |-> <<edge_len * 10, 1>>,
                          target |-> NSwap(edge_len, n_swaps),
                          file |-> heap[G].file]
            /\ pc' = "similarity"
            /\ UNCHANGED exc
    /\ UNCHANGED <<mode, heap, G, n_swaps, G_shuff, edge_len, swapcount, n, last,
                   caught, ret, printed, similarity, written>>
    /\ UNCHANGED codec

\* lines 25-26: print("NETWORK ERROR:", G.graph['file'])
ExceptNetworkXError ==
    /\ pc = "except_nx"
    /\ IF heap[G].file = NoFile
       THEN /\ exc' = "KeyError"
            /\ pc' = "raised"
            /\ UNCHANGED printed
       ELSE /\ printed' = printed \cup {"NETWORK ERROR"}
            /\ pc' = "similarity"
            /\ UNCHANGED exc
    /\ UNCHANGED <<mode, heap, G, n_swaps, G_shuff, edge_len, swapcount, n, last,
                   caught, ret, warned, similarity, written>>
    /\ UNCHANGED codec

\* mutant of SharedEdges: union in place of intersection
SharedEdgesUnion(g, h) == Cardinality(EdgeTuples(g) \cup EdgeTuples(h))

\* line 27: len(set(G.edges()).intersection(set(G_shuff.edges())))
SharedEdges(g, h) == Cardinality(EdgeTuples(g) \cap EdgeTuples(h))

\* line 33: return G_shuff
Returned(orig, shuff) == shuff

\* lines 27-33: the similarity shared_edges/float(edge_len) is printed, with
\* the label or (KeyError caught) without it, and G_shuff is returned;
\* float division by zero raises ZeroDivisionError
ReportSimilarity ==
    /\ pc = "similarity"
    /\ IF edge_len = 0
       THEN /\ exc' = "ZeroDivisionError"
            /\ pc' = "raised"
            /\ UNCHANGED <<similarity, printed, ret>>
       ELSE /\ similarity' = <<SharedEdges(heap[G], heap[G_shuff]), edge_len>>
            /\ printed' = printed \cup {"Edge Similarity"}
            /\ ret' = Returned(G, G_shuff)
            /\ pc' = "returned"
            /\ UNCHANGED exc
    /\ UNCHANGED <<mode, heap, G, n_swaps, G_shuff, edge_len, swapcount, n, last,
                   caught, warned, written>>
    /\ UNCHANGED codec

----------------------------------------------------------------------------

Next ==
    \/ MainBranch
    \/ CopyGraph
    \/ SwapEnter
    \/ SwapIteration
    \/ SwapReturn
    \/ ExceptAlgorithmError
    \/ ExceptNetworkXError
    \/ ReportSimilarity
    \/ WriteShuffled

Spec == Init /\ [][Next]_vars

----------------------------------------------------------------------------
(* The edge-list codec: load_edgelist_to_networkx (lines 46-91),           *)
(* write_networkx_to_file (lines 94-110), load_shuffled_network (41-44).   *)
(*                                                                         *)
(* A file is a record [exists, header, rows]: header is the sequence of    *)
(* column names of its first line (empty for a file without content) and   *)
(* rows the set of its data lines, each a tuple of cell texts.  A node     *)
(* identifier is <<"int", k>> for the Python int k or <<"str", s>> for the *)
(* str s, so that writing (the text of an identifier) and reading (what    *)
(* pandas makes of a text) are two different conversions.                  *)

\* the decimal texts of the integers of the model
Digits == <<"1", "2", "3">>

IntIds == { <<"int", k>> : k \in DOMAIN Digits }
StrIds == { <<"str", t>> : t \in {"1", "a", "b"} }

\* the cell texts of the files given to the loader
Texts == {"1", "2", "a"}

\* the column names of the files given to the loader
Columns == <<"Node_A", "Node_B", "Score">>

\* line 46: the default id_type, the one __main__ and load_shuffled_network use
IdType == "Entrez"

\* to_csv: the text written for a node identifier
Str(id) == IF id[1] = "int" THEN Digits[id[2]] ELSE id[2]

\* the texts that read_csv and int() take for an integer
IsIntText(t) == \E k \in DOMAIN Digits : Digits[k] = t

ParseInt(t) == CHOOSE k \in DOMAIN Digits : Digits[k] = t

\* nx.to_pandas_edgelist(G, source, target): one row per edge, with either
\* endpoint as the source; the frames G.edges() can give
EdgeRows(g) == { r \in g.nodes \X g.nodes : {r[1], r[2]} \in g.edges }

ToPandasEdgelist(g) ==
    { df \in SUBSET EdgeRows(g) :
         \A e \in g.edges : Cardinality({ r \in df : {r[1], r[2]} = e }) = 1 }

\* net_df.to_csv(outfilepath, index=False, sep="\t"): the header line and one
\* line of text per row
ToCsv(df, source, target) ==
    [exists |-> TRUE,
     header |-> <<source, target>>,
     rows   |-> { <<Str(r[1]), Str(r[2])>> : r \in df }]

\* lines 66-69, pd.read_csv: EmptyDataError for a file without a header line
ReadCsvRaises(f) == f.header = <<>>

\* line 71, net_df.columns[i] for i in node_cols: IndexError past the last column
ColumnAbsent(f, cols) == \E i \in DOMAIN cols : cols[i] + 1 > Len(f.header)

\* the cells of column c
Column(f, c) == { r[c] : r \in f.rows }

\* read_csv infers int64 for a column whose cells are all integers, object
\* (str) otherwise; a column without cells converts to int
IsIntColumn(f, c) == \A t \in Column(f, c) : IsIntText(t)

\* lines 72-74, astype(int): ValueError for a cell that is not an integer
AsTypeIntRaises(f, c) == IdType = "Entrez" /\ ~IsIntColumn(f, c)

\* the node identifier made of the text t of column c
Cell(f, c, t) == IF IsIntColumn(f, c) THEN <<"int", ParseInt(t)>> ELSE <<"str", t>>

\* mutant of EdgeOfRow: the source column is read for both endpoints
EdgeOfRowSourceOnly(a, b) == {a}

\* from_pandas_edgelist: the edge of one row
EdgeOfRow(a, b) == {a, b}

\* lines 76-79, nx.from_pandas_edgelist(net_df, source, target): KeyError for
\* a column name that the frame does not have
FromPandasEdgelistRaises(f, s, t) == ~({s, t} \subseteq DOMAIN f.header)

FromPandasEdgelist(f, s, t) ==
    LET E == { EdgeOfRow(Cell(f, s, r[s]), Cell(f, t, r[t])) : r \in f.rows }
    IN  [nodes |-> UNION E, edges |-> E, file |-> NoFile]

\* lines 64-91: the exception that leaves load_edgelist_to_networkx, the
\* graph it returns and what it prints.  read_csv, the column lookup and
\* astype(int) stand before the try block; the handlers of lines 80-85 answer
\* to from_pandas_edgelist only.
LoadResult(f, cols) ==
    IF ReadCsvRaises(f)
    THEN [exc |-> "EmptyDataError", graph |-> NoGraph, printed |-> {}]
    ELSE IF ColumnAbsent(f, cols)
    THEN [exc |-> "IndexError", graph |-> NoGraph, printed |-> {}]
    ELSE LET s == cols[1] + 1
             t == cols[2] + 1
         IN  IF AsTypeIntRaises(f, s) \/ AsTypeIntRaises(f, t)
             THEN [exc |-> "ValueError", graph |-> NoGraph, printed |-> {}]
             ELSE IF FromPandasEdgelistRaises(f, s, t)
             THEN [exc |-> "none",
                   graph |-> [NoGraph EXCEPT !.file = DataFile],
                   printed |-> {"FILE LOAD ERROR"}]
             ELSE [exc |-> "none",
                   graph |-> [FromPandasEdgelist(f, s, t) EXCEPT !.file = DataFile],
                   printed |-> {}]

\* the subsets of S with at most m elements
RECURSIVE SubsetsUpTo(_, _)
SubsetsUpTo(S, m) ==
    IF m = 0 THEN {{}}
    ELSE LET T == SubsetsUpTo(S, m - 1)
         IN  T \cup { R \cup {x} : R \in T, x \in S }

\* the files given to the loader: up to three columns, with or without rows
InputFiles ==
    UNION { { [exists |-> TRUE, header |-> SubSeq(Columns, 1, k), rows |-> R] :
                R \in IF k = 0 THEN {{}} ELSE SubsetsUpTo([1..k -> Texts], MaxRows) } :
            k \in 0..Len(Columns) }

\* node_cols: the default and the second and third column
NodeCols == { <<0, 1>>, <<1, 2>> }

\* the graphs written to a file: identifiers all int or all str, self-loops
\* and nodes without an edge allowed
CodecGraphs ==
    UNION { { [nodes |-> N, edges |-> E, file |-> DataFile] :
                 E \in SubsetsUpTo(Pairs(ids), MaxRows), N \in {ids} } :
            ids \in {IntIds, StrIds} }

\* either a graph is written, read back and written again (load_shuffled_network
\* reads with the default arguments), or load_edgelist_to_networkx is called
\* on a file
InitCodec ==
    /\ mode = "codec"
    /\ \/ /\ \E g \in CodecGraphs : heap = <<g>>
          /\ G = 1
          /\ infile = Absent
          /\ node_cols = <<0, 1>>
          /\ pc = "write"
       \/ /\ heap = <<>>
          /\ G = NoRef
          /\ infile \in InputFiles
          /\ node_cols \in NodeCols
          /\ pc = "load"
    /\ n_swaps = <<1, 1>>
    /\ G_shuff = NoRef
    /\ edge_len = 0
    /\ swapcount = 0
    /\ n = 0
    /\ last = "none"
    /\ caught = "none"
    /\ exc = "none"
    /\ ret = NoRef
    /\ warned = NoWarning
    /\ printed = {}
    /\ similarity = NoSimilarity
    /\ written = NotWritten
    /\ loaded = NoGraph
    /\ outfile = Absent

\* write_networkx_to_file(G, outfilepath) with the default column names
WriteNetworkxToFile ==
    /\ pc = "write"
    /\ \E df \in ToPandasEdgelist(heap[G]) :
          infile' = ToCsv(df, "Node_A", "Node_B")
    /\ pc' = "load"
    /\ UNCHANGED <<mode, heap, G, n_swaps, G_shuff, edge_len, swapcount, n, last,
                   caught, exc, ret, warned, printed, similarity, written,
                   node_cols, loaded, outfile>>

\* load_edgelist_to_networkx(datafile, node_cols=node_cols)
LoadEdgelistToNetworkx ==
    /\ pc = "load"
    /\ LET res == LoadResult(infile, node_cols)
       IN  /\ exc' = res.exc
           /\ loaded' = res.graph
           /\ printed' = printed \cup res.printed
           /\ pc' = IF res.exc = "none" THEN "loaded" ELSE "load_raised"
    /\ UNCHANGED <<mode, heap, G, n_swaps, G_shuff, edge_len, swapcount, n, last,
                   caught, ret, warned, similarity, written, infile, node_cols,
                   outfile>>

\* write_networkx_to_file on the graph that was loaded
WriteLoaded ==
    /\ pc = "loaded"
    /\ \E df \in ToPandasEdgelist(loaded) :
          outfile' = ToCsv(df, "Node_A", "Node_B")
    /\ pc' = "resaved"
    /\ UNCHANGED <<mode, heap, G, n_swaps, G_shuff, edge_len, swapcount, n, last,
                   caught, exc, ret, warned, printed, similarity, written,
                   infile, node_cols, loaded>>

NextCodec ==
    \/ WriteNetworkxToFile
    \/ LoadEdgelistToNetworkx
    \/ WriteLoaded

SpecCodec == InitCodec /\ [][NextCodec]_vars

----------------------------------------------------------------------------
(* Claims *)

\* the working graph exists from G.copy() on
Copied == G_shuff # NoRef

Isolated(g) == { v \in g.nodes : Degree(g, v) = 0 }

\* C1 (as claimed): every node has the same degree in the working graph as in
\* the input, after every swap and at return, for every input graph.
\* Refuted: two self-loops u-u and x-x are rewired into the single edge u-x.
C1_DegreePreserved ==
    Copied => \A v \in heap[G].nodes : Degree(heap[G_shuff], v) = Degree(heap[G], v)

\* C2 (as claimed): the graph handed over by the loader and shuffled has no
\* self-loop, in every state of the working graph.
\* Refuted: the loader keeps the self-loops of its file and the copy has them.
C2_NoSelfLoops ==
    (mode = "cli" /\ Copied) => SelfLoops(heap[G_shuff]) = {}

\* C2 (amended): no swap creates a self-loop: every self-loop of the working
\* graph is a self-loop of the input, so an input without self-loops gives an
\* output without self-loops; an edge is a set of one or two nodes of the
\* graph, kept once.
C2_NoSelfLoopCreated ==
    Copied =>
        /\ SelfLoops(heap[G_shuff]) \subseteq SelfLoops(heap[G])
        /\ heap[G_shuff].edges \subseteq Pairs(heap[G_shuff].nodes)

\* C2 witness: a graph with a self-loop was rewired and returned
C2_Witness ==
    /\ pc = "returned"
    /\ swapcount > 0
    /\ SelfLoops(heap[G]) # {}
    /\ heap[ret].edges # heap[G].edges

\* C3: the node set of the working graph, and of the graph returned, is the
\* node set of the input on every path, nodes of degree zero included.
C3_NodeSetInvariant ==
    /\ Copied => heap[G_shuff].nodes = heap[G].nodes
    /\ ret # NoRef => heap[ret].nodes = heap[G].nodes

\* C3 witness: a graph with a node of degree zero was rewired and returned
C3_Witness ==
    /\ pc = "returned"
    /\ swapcount > 0
    /\ Isolated(heap[G]) # {}

\* C4: shuffle_network never changes its input graph: every step leaves the
\* object G refers to (nodes, edges, label) as it was, and G_shuff is another
\* object.
C4_InputNotMutated ==
    [][G' = G /\ heap'[G'] = heap[G] /\ (G_shuff' # NoRef => G_shuff' # G')]_vars

\* C4 witness: the returned graph differs from the input it was copied from
C4_Witness ==
    /\ pc = "returned"
    /\ ret # G
    /\ heap[ret].edges # heap[G].edges

\* the states of a swap run: inside the loop of double_edge_swap, or at the
\* raise that ends it
InSwapRun == pc \in {"loop", "except_algorithm"}

\* i <= q for an integer i and a rational q with Den(q) > 0
IntLeq(i, q) == i * Den(q) <= Num(q)

\* C5 (as claimed): in every state of a swap run successes <= target_swaps
\* and attempts <= max_attempts, for fractional swap factors too.
\* Refuted: with 3 edges and factor 1/2 the loop makes 2 swaps for a target of
\* 1.5; with factor 1/4 it counts 8 attempts for a ceiling of 7.5.
C5_SwapCountBound ==
    InSwapRun =>
        /\ IntLeq(swapcount, NSwap(edge_len, n_swaps))
        /\ IntLeq(n, MaxTries(edge_len, n_swaps))

\* C5 (amended): in every state of a swap run successes < target_swaps + 1
\* and attempts < max_attempts + 1, attempts being the counter n: the bounds
\* are the target and the ceiling rounded up to a whole number, and are the
\* claimed ones when these are whole numbers.
C5_SwapCountBoundRoundedUp ==
    InSwapRun =>
        /\ swapcount >= 0 /\ n >= 0
        /\ swapcount = 0 \/ IntLess(swapcount - 1, NSwap(edge_len, n_swaps))
        /\ n = 0 \/ IntLess(n - 1, MaxTries(edge_len, n_swaps))
        /\ Den(n_swaps) = 1 => IntLeq(swapcount, NSwap(edge_len, n_swaps))
        /\ Den(n_swaps) = 1 => IntLeq(n, MaxTries(edge_len, n_swaps))

\* C5 witness: a run with a fractional target whose successes exceed it
C5_Witness ==
    /\ InSwapRun
    /\ ~IntLeq(swapcount, NSwap(edge_len, n_swaps))

\* C6 (as claimed): when the attempt ceiling ends the run, no exception leaves
\* shuffle_network, a warning is emitted and the working graph is returned.
\* Refuted: for a graph without the 'file' label the handler raises KeyError.
C6_BudgetExhaustedReturns ==
    caught = "NetworkXAlgorithmError" =>
        /\ pc # "raised"
        /\ ret # NoRef => (warned # NoWarning /\ ret = G_shuff)

\* fewer than 2 edges or fewer than 4 nodes
Degenerate(g) == Cardinality(g.edges) < 2 \/ Cardinality(g.nodes) < 4

Triangle == {{1, 2}, {2, 3}, {1, 3}}

\* C7 (as claimed): on a graph with fewer than 2 edges or fewer than 4 nodes
\* the engine makes no swap attempt and returns no graph to the caller.
\* Refuted: the triangle is returned, unshuffled, after "NETWORK ERROR".
C7_DegenerateAborts ==
    (Copied /\ Degenerate(heap[G])) => (last = "none" /\ ret = NoRef)

\* C7 (amended): on such a graph double_edge_swap raises NetworkXError before
\* any swap attempt and shuffle_network catches it: the working graph stays
\* equal to the input; a labelled graph with an edge (the triangle) is
\* reported with "NETWORK ERROR" and returned unshuffled with similarity 1;
\* an exception leaves only for a graph without label or without edges.
C7_DegenerateCaught ==
    (Copied /\ Degenerate(heap[G])) =>
        /\ last = "none" /\ swapcount = 0 /\ n = 0
        /\ heap[G_shuff] = heap[G]
        /\ pc \notin {"call", "swap"} => caught = "NetworkXError"
        /\ ret # NoRef =>
              /\ ret = G_shuff
              /\ "NETWORK ERROR" \in printed
              /\ similarity = <<edge_len, edge_len>>
        /\ pc = "raised" => (heap[G].file = NoFile \/ edge_len = 0)
        /\ (heap[G].file # NoFile /\ edge_len > 0 /\ pc \notin {"call", "swap", "except_nx", "similarity"})
              => ret # NoRef

\* C7 witness: the triangle is returned
C7_Witness ==
    /\ heap[G].nodes = 1..3
    /\ heap[G].edges = Triangle
    /\ pc = "returned"
    /\ ret = G_shuff

\* C8: whenever shuffle_network returns, the similarity was reported; the
\* value reported is |edges(G) /\ edges(G_shuff)| / |edges(G)| on unordered
\* pairs, with a non-zero denominator, and lies in [0, 1]; a run that ended
\* by meeting its target or exhausting its budget never divides by zero.
C8_Similarity ==
    /\ ret # NoRef => similarity # NoSimilarity
    /\ similarity # NoSimilarity =>
          /\ similarity[2] = Cardinality(heap[G].edges)
          /\ similarity[2] > 0
          /\ similarity[1] = Cardinality(heap[G].edges \cap heap[G_shuff].edges)
          /\ 0 <= similarity[1] /\ similarity[1] <= similarity[2]
    /\ (pc = "similarity" /\ caught # "NetworkXError") => edge_len > 0

\* C8 witness: a budget-exhausted run that kept some of the edges and rewired others
C8_Witness ==
    /\ pc = "returned"
    /\ caught = "NetworkXAlgorithmError"
    /\ similarity # NoSimilarity
    /\ 0 < similarity[1] /\ similarity[1] < similarity[2]

Cycle4 == {{1, 2}, {2, 3}, {3, 4}, {1, 4}}

\* Scenario A: the 4-node cycle with target_swaps = 4 * 1/4 = 1
ScenarioA ==
    /\ heap[G].nodes = 1..4
    /\ heap[G].edges = Cycle4
    /\ n_swaps = <<1, 4>>

\* the one swap of the run removed the edges 1-2 and 3-4
Swapped12and34 ==
    /\ Copied
    /\ swapcount = 1
    /\ {1, 2} \notin heap[G_shuff].edges
    /\ {3, 4} \notin heap[G_shuff].edges

\* C9 (as claimed): in Scenario A the swap of 1-2 and 3-4 puts 1-4 and 2-3 in
\* their place.
\* Refuted: 1-4 and 2-3 are edges of the cycle; the swap gives 1-3 and 2-4.
C9_ScenarioA_AsClaimed ==
    (ScenarioA /\ Swapped12and34) =>
        heap[G_shuff].edges = (Cycle4 \ {{1, 2}, {3, 4}}) \cup {{1, 4}, {2, 3}}

\* C9 (amended): in Scenario A the draw u-v = 1-2, x-y = 3-4 succeeds and
\* replaces 1-2 and 3-4 by 1-3 and 2-4; the draw 1-2, 4-3, which would give
\* 1-4 and 2-3, is rejected because both exist; after the swap every node has
\* degree 2.
C9_ScenarioA ==
    /\ (ScenarioA /\ pc = "loop" /\ swapcount = 0) =>
          /\ Outcome(heap[G_shuff], 1, 2, 3, 4).kind = "swap"
          /\ Outcome(heap[G_shuff], 1, 2, 3, 4).graph.edges
                = {{1, 3}, {2, 4}, {2, 3}, {1, 4}}
          /\ Outcome(heap[G_shuff], 1, 2, 4, 3).kind = "reject"
    /\ (ScenarioA /\ Swapped12and34) =>
          /\ heap[G_shuff].edges = {{1, 3}, {2, 4}, {2, 3}, {1, 4}}
          /\ \A v \in 1..4 : Degree(heap[G_shuff], v) = 2

\* C9 witness: Scenario A ran, swapped 1-2 and 3-4 and returned
C9_Witness ==
    /\ ScenarioA
    /\ Swapped12and34
    /\ pc = "returned"

\* C10: in the command-line flow shuffle_network is called only for a graph
\* with at least one edge and the output is written only once it returned,
\* with the graph it returned; for a graph without edges the flow prints
\* "NO EDGES", makes no call, writes nothing and raises nothing.
C10_MainFlow ==
    mode = "cli" =>
        /\ Copied => Cardinality(heap[G].edges) > 0
        /\ written # NotWritten =>
              (ret # NoRef /\ pc = "done" /\ written = heap[ret].edges)
        /\ "NO EDGES" \in printed <=> (heap[G].edges = {} /\ pc = "done")
        /\ heap[G].edges = {} =>
              /\ pc \in {"main", "done"}
              /\ ~Copied /\ ret = NoRef
              /\ written = NotWritten
              /\ exc = "none"

\* C10 witness: the flow ended on a graph without edges
C10_Witness ==
    /\ mode = "cli"
    /\ pc = "done"
    /\ heap[G].edges = {}
    /\ "NO EDGES" \in printed

\* C13 (as claimed): the budget-exhausted error is raised only in a run that
\* ends with successes < target_swaps, never after the swap that reached the
\* target.
\* Refuted: on the 4-cycle with factor 1/4 (target 1, ceiling 10) ten rejected
\* draws bring n to 10; the next draw swaps, swapcount = 1 = target, and the
\* test "n >= max_tries" that follows the swap raises.
C13_WarningOnlyBelowTarget ==
    caught = "NetworkXAlgorithmError" =>
        IntLess(swapcount, NSwap(edge_len, n_swaps))

\* C14 (as claimed): every iteration of the swap loop that does not end the
\* run increments attempts, whatever its outcome.
\* Refuted: an iteration that draws u = x or v = y takes "continue" before
\* "n += 1"; n stays and the loop draws again.
C14_EveryIterationCounts ==
    [][(pc = "loop" /\ pc' = "loop") => n' = n + 1]_vars

\* C14 (amended): an iteration either is skipped (u = x or v = y) and leaves
\* n, swapcount and the graph as they were, or reaches the parallel-edge test
\* and then increments n by one while n < max_tries, or raises when
\* n >= max_tries; the ceiling bounds the counted iterations only.
C14_CountedIterationsCount ==
    [][(pc = "loop" /\ pc' # "similarity") =>
          \/ /\ pc' = "loop" /\ last' = "continue"
             /\ n' = n /\ swapcount' = swapcount /\ heap' = heap
          \/ /\ pc' = "loop" /\ last' = "counted"
             /\ n' = n + 1
             /\ IntLess(n, MaxTries(edge_len, n_swaps))
          \/ /\ pc' = "except_algorithm" /\ last' = "counted"
             /\ n' = n
             /\ ~IntLess(n, MaxTries(edge_len, n_swaps))]_vars

\* C14 witness: a skipped iteration after counted ones, n left where it was
C14_Witness ==
    /\ pc = "loop"
    /\ last = "continue"
    /\ n > 0
    /\ IntLess(n, MaxTries(edge_len, n_swaps))

\* C15 (as claimed): every successful swap removes exactly two edges whose
\* four endpoints are pairwise distinct and adds exactly two edges; every
\* other attempt leaves the edge set unchanged.
\* Refuted: with self-loops 1-1 and 2-2 the draw u = v = 1, x = y = 2 removes
\* two edges with two endpoints and adds the single edge 1-2.
C15_SwapExchangesTwoEdges ==
    [][pc = "loop" =>
          LET E == heap[G_shuff].edges
              F == heap'[G_shuff].edges
          IN  IF swapcount' = swapcount + 1
              THEN /\ Cardinality(E \ F) = 2
                   /\ Cardinality(UNION (E \ F)) = 4
                   /\ Cardinality(F \ E) = 2
              ELSE F = E]_vars

\* C15 (amended): every successful swap removes exactly two present edges u-v
\* and x-y with u # x and v # y and adds u-x and v-y, both absent before; in
\* a graph without self-loops the four endpoints are pairwise distinct and
\* two edges are added; a single edge is added only when both removed edges
\* are self-loops; every other attempt leaves the edge set unchanged.
C15_SwapRewires ==
    [][pc = "loop" =>
          LET g == heap[G_shuff]
              E == g.edges
              F == heap'[G_shuff].edges
          IN  IF swapcount' = swapcount + 1
              THEN \E d \in Draws(g) :
                     LET u == d[1][1]
                         v == d[1][2]
                         x == d[2][1]
                         y == d[2][2]
                     IN  /\ u # x /\ v # y
                         /\ {u, x} \notin E /\ {v, y} \notin E
                         /\ E \ F = {{u, v}, {x, y}}
                         /\ Cardinality(E \ F) = 2
                         /\ F \ E = {{u, x}, {v, y}}
                         /\ SelfLoops(g) = {} =>
                               /\ Cardinality({u, v, x, y}) = 4
                               /\ Cardinality(F \ E) = 2
                         /\ Cardinality(F \ E) = 1 => (u = v /\ x = y)
              ELSE F = E]_vars

\* C15 witness: one swap was applied to a graph without self-loops
C15_Witness ==
    /\ pc = "loop"
    /\ swapcount = 1
    /\ SelfLoops(heap[G]) = {}
    /\ heap[G_shuff].edges # heap[G].edges

\* equality of two rationals with positive denominators
RatEq(a, b) == Num(a) * Den(b) = Num(b) * Den(a)

\* C16 (as claimed): the warning names the target edge_count x swap_factor
\* and the attempt count edge_count x swap_factor x 10 that the run used.
\* Refuted: the text is built from edge_len*10; with 3 edges and factor 1/2
\* the ceiling used is 15 and the warning says 30.
C16_WarningNumbers ==
    warned # NoWarning =>
        /\ RatEq(warned.target, NSwap(edge_len, n_swaps))
        /\ RatEq(warned.attempts, MaxTries(edge_len, n_swaps))

\* C17 (as claimed): for a graph without a 'file' label shuffle_network
\* raises nothing about the label on any path.
\* Refuted: the handlers at lines 23 and 26 read G.graph['file'] unguarded; an
\* unlabelled triangle (NetworkXError) or star (attempt ceiling) ends in
\* KeyError.
C17_LabelOptional ==
    heap[G].file = NoFile => exc # "KeyError"

\* an input the loader is to answer with a report and an empty graph: a
\* designated column is absent, or the file has no data row
Malformed(f, cols) == ReadCsvRaises(f) \/ ColumnAbsent(f, cols) \/ f.rows = {}

\* load_edgelist_to_networkx has ended, by return or by exception
LoadEnded == pc \in {"loaded", "load_raised", "resaved"}

\* C11 (as claimed): for a file whose designated columns are absent or that
\* has no data row (header only, or no content) load_edgelist_to_networkx
\* raises nothing, reports the problem and returns an empty graph that
\* carries the file's label.
\* Refuted: a file without content raises EmptyDataError at read_csv and a
\* one-column file raises IndexError at the column lookup, both before the
\* try block; a header-only file gives the empty labelled graph and no report.
C11_MalformedInputReported ==
    (mode = "codec" /\ G = NoRef /\ LoadEnded /\ Malformed(infile, node_cols)) =>
        /\ exc = "none"
        /\ loaded = [NoGraph EXCEPT !.file = DataFile]
        /\ printed # {}

\* the unordered edges of a graph and of a file, as texts
TextEdges(g) == { { Str(a) : a \in e } : e \in g.edges }

FileEdges(f) == { {r[1], r[2]} : r \in f.rows }

\* every identifier of an edge of g is an int or a str that spells one
NumericIds(g) == \A e \in g.edges : \A a \in e : IsIntText(Str(a))

====
